---- MODULE Spec2Model ----
(***************************************************************************)
(* Model of the taskflow backend (src/server.js, the routes registered in  *)
(* lines 397-712; lines 1-395 hold an earlier copy of the same routes).     *)
(* The document store is modelled as its collections users, groups and     *)
(* tasks.  Every HTTP handler is one action that performs the handler's    *)
(* store writes in order and records the response in `resp`.  Requests are *)
(* handled one at a time, except in the actions that perform one store     *)
(* read or write of a handler per step (`pending`, `inflight`).            *)
(***************************************************************************)
EXTENDS Naturals, Integers, Sequences, FiniteSets, TLC

VARIABLES users, groups, tasks, nextUserId, nextGroupId, nextTaskId, resp, pending,
          appstate, inflight

vars ==
  <<users, groups, tasks, nextUserId, nextGroupId, nextTaskId, resp, pending, appstate,
    inflight>>

(* ---------------------------------------------------------------- bounds *)
MaxUsers == 2
MaxGroups == 2
MaxTasks == 2
MaxNotifs == 2
CodeLen == 1
\* tasks created in the specifications that also move users between groups
MaxScopedTasks == 1
\* groups created in the specification of the app state routes
MaxAppGroups == 1
\* requests the server handles at the same time
MaxRequests == 2

(* ------------------------------------------------------------ value sets *)
\* ids are store-assigned and never reused; 0 stands for null / undefined
NULL == 0
UserIds == 1..MaxUsers
GroupIds == 1..MaxGroups
TaskIds == 1..MaxTasks

\* crypto.randomBytes(32).toString('hex') yields lowercase hex digits
HexChars == {"a", "1"}
\* characters a client may send in an invite code
Chars == {"a", "A", "1"}

\* String.prototype.toUpperCase, character by character
UpperChar(c) == IF c = "a" THEN "A" ELSE c
toUpperCase(s) == [i \in DOMAIN s |-> UpperChar(s[i])]

\* genToken().slice(0,8): a prefix of a random hex string
genTokenSlices == [1..CodeLen -> HexChars]

\* bodies a client may send as inviteCode: strings of the code length, or nothing
MISSING == <<"missing">>
CodeInputs == [1..CodeLen -> Chars] \cup {MISSING}

(* ------------------------------------------------------- store operations *)
\* collection.insertOne
insertOne(coll, id, doc) == coll @@ (id :> doc)

\* collection.deleteOne / deleteMany by a set of ids
deleteIds(coll, ids) == [x \in DOMAIN coll \ ids |-> coll[x]]

\* { $pull: { memberIds: uid } } removes every occurrence
pull(seq, uid) == SelectSeq(seq, LAMBDA m : m # uid)

\* Array.prototype.includes
includes(seq, uid) == \E i \in DOMAIN seq : seq[i] = uid

\* db.collection('groups').findOne({ _id: new ObjectId(groupId) });
\* new ObjectId(null) is a fresh id, which matches no document
findGroup(gid) == IF gid # NULL /\ gid \in DOMAIN groups THEN gid ELSE NULL

\* db.collection('groups').findOne({ inviteCode }): first match in insertion order
findGroupByCode(code) ==
  LET m == {g \in DOMAIN groups : groups[g].inviteCode = code}
  IN IF m = {} THEN NULL ELSE CHOOSE g \in m : \A h \in m : g <= h

\* the answer to the last request: the route, the caller, the HTTP status and,
\* for POST /api/groups/join, the invite code of the body
Response(op, u, status) == [op |-> op, user |-> u, status |-> status, arg |-> <<>>]
JoinResponse(u, status, code) == [op |-> "joinGroup", user |-> u, status |-> status, arg |-> code]

(* ------------------------------------------------------------------- Init *)
Init ==
  /\ users = <<>>
  /\ groups = <<>>
  /\ tasks = <<>>
  /\ nextUserId = 1
  /\ nextGroupId = 1
  /\ nextTaskId = 1
  /\ resp = Response("none", NULL, 0)
  /\ pending = <<>>
  /\ appstate = <<>>
  /\ inflight = <<>>

(* ------------------------------------------------------------------ users *)
\* auth middleware: a request without a token or with an unknown token
AuthFail ==
  /\ resp' = Response("auth", NULL, 401)
  /\ UNCHANGED <<users, groups, tasks, nextUserId, nextGroupId, nextTaskId>>
  /\ UNCHANGED <<pending, appstate, inflight>>

\* POST /api/users/login with a blank username
LoginBlank ==
  /\ resp' = Response("login", NULL, 400)
  /\ UNCHANGED <<users, groups, tasks, nextUserId, nextGroupId, nextTaskId>>
  /\ UNCHANGED <<pending, appstate, inflight>>

\* POST /api/users/login with the name of a stored user
LoginExisting(u) ==
  /\ u \in DOMAIN users
  /\ resp' = Response("login", u, 200)
  /\ UNCHANGED <<users, groups, tasks, nextUserId, nextGroupId, nextTaskId>>
  /\ UNCHANGED <<pending, appstate, inflight>>

\* POST /api/users/login with a name no stored user has
LoginNew ==
  /\ nextUserId <= MaxUsers
  /\ users' = insertOne(users, nextUserId,
                [groupId |-> NULL, solo |-> FALSE, notifications |-> <<>>])
  /\ nextUserId' = nextUserId + 1
  /\ resp' = Response("login", nextUserId, 200)
  /\ UNCHANGED <<groups, tasks, nextGroupId, nextTaskId>>
  /\ UNCHANGED <<pending, appstate, inflight>>

\* bodies of PATCH /api/users/me; of the allowed fields only solo is part of
\* the model, "absent" is a body that sets other fields only
SoloInputs == {"absent", "true", "false"}

\* PATCH /api/users/me
PatchMe(u, solo) ==
  /\ u \in DOMAIN users
  /\ users' = IF solo = "absent" THEN users
              ELSE [users EXCEPT ![u].solo = (solo = "true")]
  /\ resp' = Response("patchMe", u, 200)
  /\ UNCHANGED <<groups, tasks, nextUserId, nextGroupId, nextTaskId>>
  /\ UNCHANGED <<pending, appstate, inflight>>

\* a guard that lets the creator go whoever remains
deleteMeRefused_Mutant(u, g) == FALSE

\* the guard of DELETE /api/users/me
deleteMeRefused(u, g) ==
  g # NULL /\ groups[g].creatorId = u /\ Len(groups[g].memberIds) > 1

\* DELETE /api/users/me
DeleteMe(u) ==
  /\ u \in DOMAIN users
  /\ LET gid == users[u].groupId
         g == findGroup(gid)
     IN IF deleteMeRefused(u, g)
        THEN /\ resp' = Response("deleteMe", u, 400)
             /\ UNCHANGED <<users, groups, tasks>>
        ELSE /\ groups' = IF g # NULL
                          THEN [groups EXCEPT ![g].memberIds = pull(@, u)]
                          ELSE groups
             /\ tasks' = deleteIds(tasks, {t \in DOMAIN tasks :
                            tasks[t].assignee = u /\ tasks[t].groupId = gid})
             /\ users' = deleteIds(users, {u})
             /\ resp' = Response("deleteMe", u, 200)
  /\ UNCHANGED <<nextUserId, nextGroupId, nextTaskId>>
  /\ UNCHANGED <<pending, appstate, inflight>>

\* DELETE /api/users/notifications
ClearNotifications(u) ==
  /\ u \in DOMAIN users
  /\ users' = [users EXCEPT ![u].notifications = <<>>]
  /\ resp' = Response("clearNotifications", u, 200)
  /\ UNCHANGED <<groups, tasks, nextUserId, nextGroupId, nextTaskId>>
  /\ UNCHANGED <<pending, appstate, inflight>>

(* ----------------------------------------------------------------- groups *)
\* POST /api/groups with a blank name
CreateGroupBlank(u) ==
  /\ u \in DOMAIN users
  /\ resp' = Response("createGroup", u, 400)
  /\ UNCHANGED <<users, groups, tasks, nextUserId, nextGroupId, nextTaskId>>
  /\ UNCHANGED <<pending, appstate, inflight>>

\* the random bytes stored as they are drawn, in lowercase
newInviteCode_Mutant(slice) == slice

\* inviteCode: genToken().slice(0,8).toUpperCase()
newInviteCode(slice) == toUpperCase(slice)

\* POST /api/groups
CreateGroup(u, slice) ==
  /\ u \in DOMAIN users
  /\ nextGroupId <= MaxGroups
  /\ groups' = insertOne(groups, nextGroupId,
                 [creatorId |-> u, memberIds |-> <<u>>,
                  inviteCode |-> newInviteCode(slice)])
  /\ users' = [users EXCEPT ![u].groupId = nextGroupId, ![u].solo = FALSE]
  /\ nextGroupId' = nextGroupId + 1
  /\ resp' = Response("createGroup", u, 200)
  /\ UNCHANGED <<tasks, nextUserId, nextTaskId>>
  /\ UNCHANGED <<pending, appstate, inflight>>

\* a join that appends without looking
joinMembers_Mutant(members, u) == Append(members, u)

\* the memberIds written by POST /api/groups/join
joinMembers(members, u) == IF includes(members, u) THEN members ELSE Append(members, u)

\* POST /api/groups/join
JoinGroup(u, code) ==
  /\ u \in DOMAIN users
  /\ LET g == IF code = MISSING THEN NULL ELSE findGroupByCode(toUpperCase(code))
     IN IF g = NULL
        THEN /\ resp' = JoinResponse(u, 404, code)
             /\ UNCHANGED <<users, groups>>
        ELSE /\ groups' = [groups EXCEPT ![g].memberIds = joinMembers(@, u)]
             /\ users' = [users EXCEPT ![u].groupId = g, ![u].solo = FALSE]
             /\ resp' = JoinResponse(u, 200, code)
  /\ UNCHANGED <<tasks, nextUserId, nextGroupId, nextTaskId>>
  /\ UNCHANGED <<pending, appstate, inflight>>

\* PATCH /api/groups/mine; name and photo are not part of the model
UpdateGroup(u) ==
  /\ u \in DOMAIN users
  /\ LET g == findGroup(users[u].groupId)
     IN resp' = IF g = NULL \/ groups[g].creatorId # u
                THEN Response("updateGroup", u, 403)
                ELSE Response("updateGroup", u, 200)
  /\ UNCHANGED <<users, groups, tasks, nextUserId, nextGroupId, nextTaskId>>
  /\ UNCHANGED <<pending, appstate, inflight>>

\* a guard that asks for membership instead of authorship
deleteGroupAllowed_Mutant(u, g) == g # NULL /\ includes(groups[g].memberIds, u)

\* the guard of DELETE /api/groups/mine
deleteGroupAllowed(u, g) == g # NULL /\ groups[g].creatorId = u

\* DELETE /api/groups/mine
DeleteGroup(u) ==
  /\ u \in DOMAIN users
  /\ LET g == findGroup(users[u].groupId)
     IN IF ~deleteGroupAllowed(u, g)
        THEN /\ resp' = Response("deleteGroup", u, 403)
             /\ UNCHANGED <<users, groups, tasks>>
        ELSE /\ users' = [x \in DOMAIN users |->
                            IF includes(groups[g].memberIds, x)
                            THEN [users[x] EXCEPT !.groupId = NULL]
                            ELSE users[x]]
             /\ tasks' = deleteIds(tasks, {t \in DOMAIN tasks : tasks[t].groupId = g})
             /\ groups' = deleteIds(groups, {g})
             /\ resp' = Response("deleteGroup", u, 200)
  /\ UNCHANGED <<nextUserId, nextGroupId, nextTaskId>>
  /\ UNCHANGED <<pending, appstate, inflight>>

\* an order that removes the owning record before its dependents
deleteGroupWrites_Mutant == <<"groups", "tasks", "users">>

\* the collections DELETE /api/groups/mine writes, in the order of its awaits
deleteGroupWrites == <<"users", "tasks", "groups">>

\* DELETE /api/groups/mine up to its first write: the group is read and the
\* caller checked; pending[u] holds the document read and the next write
DeleteGroupBegin(u) ==
  /\ u \in DOMAIN users /\ u \notin DOMAIN pending
  /\ LET g == findGroup(users[u].groupId)
     IN IF ~deleteGroupAllowed(u, g)
        THEN /\ resp' = Response("deleteGroup", u, 403)
             /\ pending' = pending
        ELSE /\ pending' = pending @@
                  (u :> [group |-> g, memberIds |-> groups[g].memberIds, pc |-> 1])
             /\ resp' = resp
  /\ UNCHANGED <<users, groups, tasks, nextUserId, nextGroupId, nextTaskId>>
  /\ UNCHANGED <<appstate, inflight>>

\* one write of DELETE /api/groups/mine; the request is answered after the last
DeleteGroupWrite(u) ==
  /\ u \in DOMAIN pending
  /\ LET g == pending[u].group
         w == deleteGroupWrites[pending[u].pc]
     IN /\ users' = IF w = "users"
                    THEN [x \in DOMAIN users |->
                            IF includes(pending[u].memberIds, x)
                            THEN [users[x] EXCEPT !.groupId = NULL]
                            ELSE users[x]]
                    ELSE users
        /\ tasks' = IF w = "tasks"
                    THEN deleteIds(tasks, {t \in DOMAIN tasks : tasks[t].groupId = g})
                    ELSE tasks
        /\ groups' = IF w = "groups" THEN deleteIds(groups, {g}) ELSE groups
  /\ IF pending[u].pc < Len(deleteGroupWrites)
     THEN /\ pending' = [pending EXCEPT ![u].pc = @ + 1]
          /\ resp' = resp
     ELSE /\ pending' = deleteIds(pending, {u})
          /\ resp' = [op |-> "deleteGroup", user |-> u, status |-> 200,
                      arg |-> pending[u].memberIds]
  /\ UNCHANGED <<nextUserId, nextGroupId, nextTaskId>>
  /\ UNCHANGED <<appstate, inflight>>

\* GET /api/groups/mine: the id of the group returned, NULL for null
mine(u) == findGroup(users[u].groupId)

\* GET /api/groups/mine
GetGroup(u) ==
  /\ u \in DOMAIN users
  /\ resp' = [op |-> "getGroup", user |-> u, status |-> 200,
              arg |-> IF mine(u) = NULL THEN <<>> ELSE <<mine(u)>>]
  /\ UNCHANGED <<users, groups, tasks, nextUserId, nextGroupId, nextTaskId, pending>>
  /\ UNCHANGED <<appstate, inflight>>

\* a guard that counts the creator among the members who remain
leaveRefused_Mutant(u, g) ==
  g # NULL /\ groups[g].creatorId = u /\ Len(groups[g].memberIds) >= 1

\* the guard of POST /api/groups/leave
leaveRefused(u, g) ==
  g # NULL /\ groups[g].creatorId = u /\ Len(groups[g].memberIds) > 1

\* POST /api/groups/leave
LeaveGroup(u) ==
  /\ u \in DOMAIN users
  /\ LET gid == users[u].groupId
         g == findGroup(gid)
     IN IF gid = NULL
        THEN /\ resp' = Response("leaveGroup", u, 400)
             /\ UNCHANGED <<users, groups>>
        ELSE IF leaveRefused(u, g)
        THEN /\ resp' = Response("leaveGroup", u, 400)
             /\ UNCHANGED <<users, groups>>
        ELSE /\ groups' = IF g # NULL
                          THEN [groups EXCEPT ![g].memberIds = pull(@, u)]
                          ELSE groups
             /\ users' = [users EXCEPT ![u].groupId = NULL]
             /\ resp' = Response("leaveGroup", u, 200)
  /\ UNCHANGED <<tasks, nextUserId, nextGroupId, nextTaskId>>
  /\ UNCHANGED <<pending, appstate, inflight>>

(* ------------------------------------------------------------------ tasks *)
\* assignee values besides user ids: the sentinel 'all' and a string that is
\* no ObjectId
ALL == -2
BAD == -1
Assignees == {NULL, ALL, BAD} \cup UserIds

\* a scope that always carries the ownerId, with or without a group
scope_Mutant(u) ==
  [groupId |-> users[u].groupId, hasOwnerId |-> TRUE, ownerId |-> u]

\* function scope(user); ownerId = NULL when the scope has no ownerId key
scope(u) ==
  IF users[u].groupId # NULL
  THEN [groupId |-> users[u].groupId, hasOwnerId |-> FALSE, ownerId |-> NULL]
  ELSE [groupId |-> NULL, hasOwnerId |-> TRUE, ownerId |-> u]

\* tasks.find(scope(user)): equality on every key the scope has
matchesScope(t, sc) ==
  /\ tasks[t].groupId = sc.groupId
  /\ sc.hasOwnerId => tasks[t].ownerId = sc.ownerId

\* bodies of POST /api/tasks; a field equal to NULL is absent from the body
TaskBodies ==
  [groupId : {NULL} \cup GroupIds, ownerId : {NULL} \cup UserIds,
   creatorId : {NULL} \cup UserIds, assignee : Assignees, done : BOOLEAN]

\* { ...req.body, ...scope(req.user), creatorId: req.user._id.toString() }
stampTask(u, body) ==
  LET sc == scope(u)
  IN [groupId |-> sc.groupId,
      ownerId |-> IF sc.hasOwnerId THEN sc.ownerId ELSE body.ownerId,
      creatorId |-> u,
      assignee |-> body.assignee,
      done |-> body.done]

\* { $push: { notifications: n } } on the user with that id, if there is one
pushNotification(us, uid, n) ==
  IF uid \in DOMAIN us
  THEN [us EXCEPT ![uid].notifications = Append(@, n)]
  ELSE us

\* a condition that forgets to compare the assignee with the creator
notifiesAssignee_Mutant(u, assignee) == assignee # NULL /\ assignee # ALL

\* whether POST /api/tasks writes a notification
notifiesAssignee(u, assignee) == assignee # NULL /\ assignee # ALL /\ assignee # u

\* POST /api/tasks
CreateTask(u, body) ==
  /\ u \in DOMAIN users
  /\ nextTaskId <= MaxTasks
  /\ LET task == stampTask(u, body)
         a == task.assignee
     IN /\ (notifiesAssignee(u, a) /\ a \in DOMAIN users)
             => Len(users[a].notifications) < MaxNotifs
        /\ tasks' = insertOne(tasks, nextTaskId, task)
        /\ nextTaskId' = nextTaskId + 1
        /\ IF notifiesAssignee(u, a)
           THEN IF a = BAD
                THEN \* new ObjectId(assignee) throws after the insert
                     /\ users' = users
                     /\ resp' = Response("createTask", u, 500)
                ELSE /\ users' = pushNotification(users, a,
                                   [type |-> "task_assigned", taskId |-> nextTaskId])
                     /\ resp' = Response("createTask", u, 200)
           ELSE /\ users' = users
                /\ resp' = Response("createTask", u, 200)
  /\ UNCHANGED <<groups, nextUserId, nextGroupId>>
  /\ UNCHANGED <<pending, appstate, inflight>>

(* ------------------------------------------------ requests in flight *)
\* A handler is a chain of awaits: the store performs one read or write of
\* the chain at a time, and between two of them it may serve another request.
\* inflight[r] holds what request r has read so far and its next write.
Requests == 1..MaxRequests

\* POST /api/groups/join up to its first write: the group is read by its
\* invite code; the $push is skipped when the document read lists the caller
JoinGroupBegin(r, u, code) ==
  /\ r \notin DOMAIN inflight
  /\ u \in DOMAIN users
  /\ LET g == IF code = MISSING THEN NULL ELSE findGroupByCode(toUpperCase(code))
     IN IF g = NULL
        THEN /\ resp' = JoinResponse(u, 404, code)
             /\ inflight' = inflight
        ELSE /\ inflight' = inflight @@
                  (r :> [route |-> "joinGroup", user |-> u, group |-> g, code |-> code,
                         pc |-> IF includes(groups[g].memberIds, u) THEN 2 ELSE 1])
             /\ resp' = resp
  /\ UNCHANGED <<users, groups, tasks, nextUserId, nextGroupId, nextTaskId>>
  /\ UNCHANGED <<pending, appstate>>

\* one write of POST /api/groups/join: the $push on the group, then the $set
\* on the user; updateOne changes nothing when no document has the id
JoinGroupWrite(r) ==
  /\ r \in DOMAIN inflight /\ inflight[r].route = "joinGroup"
  /\ LET u == inflight[r].user
         g == inflight[r].group
     IN IF inflight[r].pc = 1
        THEN /\ groups' = IF g \in DOMAIN groups
                          THEN [groups EXCEPT ![g].memberIds = Append(@, u)]
                          ELSE groups
             /\ inflight' = [inflight EXCEPT ![r].pc = 2]
             /\ UNCHANGED <<users, resp>>
        ELSE /\ users' = IF u \in DOMAIN users
                         THEN [users EXCEPT ![u].groupId = g, ![u].solo = FALSE]
                         ELSE users
             /\ inflight' = deleteIds(inflight, {r})
             /\ resp' = JoinResponse(u, 200, inflight[r].code)
             /\ groups' = groups
  /\ UNCHANGED <<tasks, nextUserId, nextGroupId, nextTaskId>>
  /\ UNCHANGED <<pending, appstate>>

\* POST /api/tasks up to its first write: auth reads the caller's document,
\* and the task is built from that copy
CreateTaskBegin(r, u, body) ==
  /\ r \notin DOMAIN inflight
  /\ u \in DOMAIN users
  /\ inflight' = inflight @@
       (r :> [route |-> "createTask", user |-> u, task |-> stampTask(u, body),
              taskId |-> NULL, pc |-> 1])
  /\ UNCHANGED <<users, groups, tasks, nextUserId, nextGroupId, nextTaskId>>
  /\ UNCHANGED <<resp, pending, appstate>>

\* one write of POST /api/tasks: the insert, then the notification if any
CreateTaskWrite(r) ==
  /\ r \in DOMAIN inflight /\ inflight[r].route = "createTask"
  /\ LET u == inflight[r].user
         a == inflight[r].task.assignee
     IN IF inflight[r].pc = 1
        THEN /\ nextTaskId <= MaxTasks
             /\ tasks' = insertOne(tasks, nextTaskId, inflight[r].task)
             /\ nextTaskId' = nextTaskId + 1
             /\ users' = users
             /\ IF notifiesAssignee(u, a) /\ a # BAD
                THEN /\ inflight' = [inflight EXCEPT ![r].pc = 2, ![r].taskId = nextTaskId]
                     /\ resp' = resp
                ELSE /\ inflight' = deleteIds(inflight, {r})
                     /\ resp' = Response("createTask", u,
                                         IF notifiesAssignee(u, a) THEN 500 ELSE 200)
        ELSE /\ a \in DOMAIN users => Len(users[a].notifications) < MaxNotifs
             /\ users' = pushNotification(users, a,
                            [type |-> "task_assigned", taskId |-> inflight[r].taskId])
             /\ inflight' = deleteIds(inflight, {r})
             /\ resp' = Response("createTask", u, 200)
             /\ UNCHANGED <<tasks, nextTaskId>>
  /\ UNCHANGED <<groups, nextUserId, nextGroupId>>
  /\ UNCHANGED <<pending, appstate>>

\* the answer to DELETE /api/tasks/:id, with the id of the request it answers
DeleteResponse(u, status, t) ==
  [op |-> "deleteTask", user |-> u, status |-> status, arg |-> <<t>>]

\* DELETE /api/tasks/:id; t = BAD is an id that is no ObjectId
DeleteTask(u, t) ==
  /\ u \in DOMAIN users
  /\ IF t = BAD
     THEN /\ resp' = DeleteResponse(u, 500, t)
          /\ tasks' = tasks
     ELSE /\ tasks' = deleteIds(tasks, {t})
          /\ resp' = DeleteResponse(u, 200, t)
  /\ UNCHANGED <<users, groups, nextUserId, nextGroupId, nextTaskId>>
  /\ UNCHANGED <<pending, appstate, inflight>>

\* tasks.find(scope(user)): the ids of the matching tasks, in stored order
findTasks(u) ==
  SelectSeq([i \in 1..(nextTaskId - 1) |-> i],
            LAMBDA t : t \in DOMAIN tasks /\ matchesScope(t, scope(u)))

\* GET /api/tasks
ListTasks(u) ==
  /\ u \in DOMAIN users
  /\ resp' = [op |-> "listTasks", user |-> u, status |-> 200, arg |-> findTasks(u)]
  /\ UNCHANGED <<users, groups, tasks, nextUserId, nextGroupId, nextTaskId>>
  /\ UNCHANGED <<pending, appstate, inflight>>

\* a field a patch body does not hold
ABSENT == -3

\* bodies of PATCH /api/tasks/:id; done is "absent", "true" or "false"
TaskPatches ==
  [groupId : {ABSENT, NULL} \cup GroupIds, ownerId : {ABSENT, NULL} \cup UserIds,
   creatorId : {ABSENT, NULL, BAD} \cup UserIds, assignee : {ABSENT} \cup Assignees,
   done : {"absent", "true", "false"}]

\* { $set: update } on a task document
applyPatch(task, patch) ==
  [groupId |-> IF patch.groupId = ABSENT THEN task.groupId ELSE patch.groupId,
   ownerId |-> IF patch.ownerId = ABSENT THEN task.ownerId ELSE patch.ownerId,
   creatorId |-> IF patch.creatorId = ABSENT THEN task.creatorId ELSE patch.creatorId,
   assignee |-> IF patch.assignee = ABSENT THEN task.assignee ELSE patch.assignee,
   done |-> IF patch.done = "absent" THEN task.done ELSE patch.done = "true"]

\* a condition that forgets to compare the creator with the caller
notifiesCreator_Mutant(u, task, patch) == patch.done = "true" /\ task.creatorId # NULL

\* whether PATCH /api/tasks/:id writes a notification; task is the document
\* read before the update
notifiesCreator(u, task, patch) ==
  patch.done = "true" /\ task.creatorId # NULL /\ task.creatorId # u

\* the answer to PATCH /api/tasks/:id, with the id and the done field of the
\* request it answers
UpdateResponse(u, status, t, patch) ==
  [op |-> "updateTask", user |-> u, status |-> status, arg |-> <<t, patch.done>>]

\* PATCH /api/tasks/:id; t = BAD is an id that is no ObjectId
UpdateTask(u, t, patch) ==
  /\ u \in DOMAIN users
  /\ IF t = BAD
     THEN /\ resp' = UpdateResponse(u, 500, t, patch)
          /\ UNCHANGED <<users, tasks>>
     ELSE IF t \notin DOMAIN tasks
     THEN /\ resp' = UpdateResponse(u, 404, t, patch)
          /\ UNCHANGED <<users, tasks>>
     ELSE LET task == tasks[t]
              c == task.creatorId
          IN /\ (notifiesCreator(u, task, patch) /\ c \in DOMAIN users)
                  => Len(users[c].notifications) < MaxNotifs
             /\ tasks' = [tasks EXCEPT ![t] = applyPatch(task, patch)]
             /\ IF notifiesCreator(u, task, patch)
                THEN IF c = BAD
                     THEN \* new ObjectId(task.creatorId) throws after the update
                          /\ users' = users
                          /\ resp' = UpdateResponse(u, 500, t, patch)
                     ELSE /\ users' = pushNotification(users, c,
                                        [type |-> "task_done", taskId |-> t])
                          /\ resp' = UpdateResponse(u, 200, t, patch)
                ELSE /\ users' = users
                     /\ resp' = UpdateResponse(u, 200, t, patch)
  /\ UNCHANGED <<groups, nextUserId, nextGroupId, nextTaskId>>
  /\ UNCHANGED <<pending, appstate, inflight>>

\* users.find(groupId ? { groupId } : { _id }): the ids of the matching users,
\* in stored order
findUsers(u) ==
  SelectSeq([i \in 1..(nextUserId - 1) |-> i],
            LAMBDA v : /\ v \in DOMAIN users
                       /\ IF users[u].groupId # NULL
                          THEN users[v].groupId = users[u].groupId
                          ELSE v = u)

\* .project({ token: 0, notifications: 0 }) of a user document
projectUser(v) == [id |-> v, groupId |-> users[v].groupId, solo |-> users[v].solo]

\* a serialization that leaves out the fields of the task
stringifyTask_Mutant(t) == <<t>>

\* JSON.stringify of a task document
stringifyTask(t) == <<t, tasks[t]>>

\* the argument of the digest, which is taken as injective:
\* JSON.stringify(tasks) + JSON.stringify(users)
pollHash(u) ==
  LET found == findTasks(u)
      members == findUsers(u)
  IN <<[i \in DOMAIN found |-> stringifyTask(found[i])],
       [i \in DOMAIN members |-> projectUser(members[i])]>>

\* GET /api/poll
Poll(u) ==
  /\ u \in DOMAIN users
  /\ resp' = [op |-> "poll", user |-> u, status |-> 200,
              arg |-> <<pollHash(u), users[u].notifications # <<>> >>]
  /\ UNCHANGED <<users, groups, tasks, nextUserId, nextGroupId, nextTaskId>>
  /\ UNCHANGED <<pending, appstate, inflight>>

\* users.find({ _id: { $in: group.memberIds } }) of GET /api/users, in
\* insertion order; the caller alone without a groupId, nobody when the
\* groupId names no group
listUsers(u) ==
  IF users[u].groupId # NULL
  THEN LET g == findGroup(users[u].groupId)
       IN IF g # NULL
          THEN SelectSeq([i \in 1..(nextUserId - 1) |-> i],
                         LAMBDA v : v \in DOMAIN users /\ includes(groups[g].memberIds, v))
          ELSE <<>>
  ELSE <<u>>

\* GET /api/users: the documents found, without the token
GetUsers(u) ==
  /\ u \in DOMAIN users
  /\ resp' = [op |-> "getUsers", user |-> u, status |-> 200,
              arg |-> [i \in DOMAIN listUsers(u) |->
                         <<listUsers(u)[i], users[listUsers(u)[i]]>>]]
  /\ UNCHANGED <<users, groups, tasks, nextUserId, nextGroupId, nextTaskId>>
  /\ UNCHANGED <<pending, appstate, inflight>>

\* the fields of the app state blob besides _id, and their values
AppFields == {"pool", "cats"}
AppValues == {1, 2}

\* the app state blobs: objects over some of the fields
AppStates == UNION {[d -> AppValues] : d \in SUBSET AppFields}

\* the _id of the app state document of a group or of a user; <<>> stands for
\* an object without _id
NoId == <<>>
groupKey(g) == <<"group", g>>
userKey(u) == <<"user", u>>
AppKeys == {groupKey(g) : g \in GroupIds} \cup {userKey(u) : u \in UserIds}

\* the bodies of POST /api/appstate: an object with or without _id
AppBodies == [_id : {NoId} \cup AppKeys, state : AppStates]

\* req.user.groupId || req.user._id.toString()
appKey(u) == IF users[u].groupId # NULL THEN groupKey(users[u].groupId) ELSE userKey(u)

\* a replacement that keeps the fields of the stored document the body lacks
replacement_Mutant(key, body) ==
  IF key \in DOMAIN appstate THEN body.state @@ appstate[key] ELSE body.state

\* the fields besides _id of the document replaceOne stores at key
replacement(key, body) == body.state

\* the result of GET /api/appstate: {} without a document, else the document
\* without its _id
getAppState(u) ==
  [_id |-> NoId,
   state |-> IF appKey(u) \in DOMAIN appstate THEN appstate[appKey(u)] ELSE <<>>]

\* GET /api/appstate
GetAppState(u) ==
  /\ u \in DOMAIN users
  /\ resp' = [op |-> "getAppState", user |-> u, status |-> 200,
              arg |-> <<getAppState(u)>>]
  /\ UNCHANGED <<users, groups, tasks, nextUserId, nextGroupId, nextTaskId, pending,
                 appstate, inflight>>

\* POST /api/appstate; an _id in the body replaces the key in the document to
\* store, and replaceOne rejects a document whose _id is not the one filtered on
SetAppState(u, body) ==
  /\ u \in DOMAIN users
  /\ LET key == appKey(u)
         id == IF body._id = NoId THEN key ELSE body._id
     IN IF id # key
        THEN /\ appstate' = appstate
             /\ resp' = [op |-> "setAppState", user |-> u, status |-> 500,
                         arg |-> <<body>>]
        ELSE /\ appstate' = [k \in DOMAIN appstate \cup {key} |->
                               IF k = key THEN replacement(key, body) ELSE appstate[k]]
             /\ resp' = [op |-> "setAppState", user |-> u, status |-> 200,
                         arg |-> <<body>>]
  /\ UNCHANGED <<users, groups, tasks, nextUserId, nextGroupId, nextTaskId, pending>>
  /\ UNCHANGED inflight

(* ---------------------------------------------------------- specifications *)
\* every route that reads or writes users and groups only
MembershipNext ==
  \/ AuthFail
  \/ LoginBlank
  \/ LoginNew
  \/ \E u \in UserIds : LoginExisting(u)
  \/ \E u \in UserIds, solo \in SoloInputs : PatchMe(u, solo)
  \/ \E u \in UserIds : DeleteMe(u)
  \/ \E u \in UserIds : CreateGroupBlank(u)
  \/ \E u \in UserIds, slice \in genTokenSlices : CreateGroup(u, slice)
  \/ \E u \in UserIds, code \in CodeInputs : JoinGroup(u, code)
  \/ \E u \in UserIds : UpdateGroup(u)
  \/ \E u \in UserIds : DeleteGroup(u)
  \/ \E u \in UserIds : LeaveGroup(u)

\* the routes that read or write tasks and mailboxes
TaskNext ==
  \/ \E u \in UserIds : ClearNotifications(u)
  \/ \E u \in UserIds, body \in TaskBodies : CreateTask(u, body)
  \/ \E u \in UserIds, t \in TaskIds \cup {BAD} : DeleteTask(u, t)
  \/ \E u \in UserIds : ListTasks(u)
  \/ \E u \in UserIds : Poll(u)
  \/ \E u \in UserIds, t \in TaskIds \cup {BAD}, patch \in TaskPatches :
       UpdateTask(u, t, patch)

\* DELETE /api/groups/mine, POST /api/groups/join and POST /api/tasks write by
\* write, and the routes that read the group and its members
StepwiseNext ==
  \/ \E u \in UserIds : DeleteGroupBegin(u)
  \/ \E u \in UserIds : DeleteGroupWrite(u)
  \/ \E u \in UserIds : GetGroup(u)
  \/ \E u \in UserIds : GetUsers(u)
  \/ \E r \in Requests, u \in UserIds, code \in CodeInputs : JoinGroupBegin(r, u, code)
  \/ \E r \in Requests : JoinGroupWrite(r)
  \/ \E r \in Requests, u \in UserIds, body \in TaskBodies : CreateTaskBegin(r, u, body)
  \/ \E r \in Requests : CreateTaskWrite(r)

\* the routes of the app state blob
AppStateNext ==
  \/ \E u \in UserIds : GetAppState(u)
  \/ \E u \in UserIds, body \in AppBodies : SetAppState(u, body)

Next == MembershipNext \/ TaskNext \/ StepwiseNext \/ AppStateNext

\* the whole application; its behaviours are explored through the two
\* specifications below, each over the routes its properties are about
Spec == Init /\ [][Next]_vars

\* membership operations only: no task is ever stored
SpecMembership == Init /\ [][MembershipNext]_vars

\* the n-th group's invite code when no two groups draw the same random bytes
distinctSlice(n) == [i \in 1..CodeLen |-> IF n % 2 = 1 THEN "a" ELSE "1"]

\* task bodies of new, open tasks; the two fields the handler always overwrites
\* take one value besides being absent
OpenTaskBodies ==
  [groupId : {NULL, 1}, ownerId : {NULL} \cup UserIds, creatorId : {NULL, 1},
   assignee : Assignees, done : {FALSE}]

\* the task routes with the membership writes that change a task's scope;
\* invite codes do not collide and the solo flag is left alone
TaskSpecNext ==
  \/ LoginNew
  \/ \E u \in UserIds : CreateGroup(u, distinctSlice(nextGroupId))
  \/ \E u \in UserIds, code \in CodeInputs : JoinGroup(u, code)
  \/ \E u \in UserIds : DeleteGroup(u)
  \/ \E u \in UserIds : LeaveGroup(u)
  \/ \E u \in UserIds : ClearNotifications(u)
  \/ \E u \in UserIds, body \in OpenTaskBodies :
       nextTaskId <= MaxScopedTasks /\ CreateTask(u, body)
  \/ \E u \in UserIds, t \in TaskIds \cup {BAD} : DeleteTask(u, t)

SpecTasks == Init /\ [][TaskSpecNext]_vars

\* the request bodies of PATCH /api/tasks/:id tried by SpecUpdate: done
\* cleared or left out, alone or with one of groupId, ownerId or creatorId
UpdatePatches ==
  {p \in [groupId : {ABSENT, 1}, ownerId : {ABSENT, 2}, creatorId : {ABSENT, BAD},
          assignee : {ABSENT}, done : {"absent", "false"}] :
     Cardinality({f \in {"groupId", "ownerId", "creatorId"} : p[f] # ABSENT}) <= 1}

\* the request bodies of POST /api/tasks tried by SpecUpdate
UpdateTaskBodies ==
  [groupId : {NULL}, ownerId : {NULL}, creatorId : {NULL},
   assignee : {NULL} \cup UserIds, done : {FALSE}]

\* the routes that create, change and delete tasks, with the group routes that
\* move a user between scopes
UpdateSpecNext ==
  \/ LoginNew
  \/ \E u \in UserIds : CreateGroup(u, distinctSlice(nextGroupId))
  \/ \E u \in UserIds, code \in CodeInputs : JoinGroup(u, code)
  \/ \E u \in UserIds : ClearNotifications(u)
  \/ \E u \in UserIds, body \in UpdateTaskBodies :
       nextTaskId <= MaxScopedTasks /\ CreateTask(u, body)
  \/ \E u \in UserIds, t \in TaskIds \cup {BAD}, patch \in UpdatePatches :
       UpdateTask(u, t, patch)
  \/ \E u \in UserIds, t \in TaskIds \cup {BAD} : DeleteTask(u, t)
  \/ \E u \in UserIds : ListTasks(u)

SpecUpdate == Init /\ [][UpdateSpecNext]_vars

\* the request bodies of POST /api/tasks tried by SpecNotify
NotifyTaskBodies ==
  [groupId : {NULL}, ownerId : {NULL}, creatorId : {NULL},
   assignee : Assignees, done : {FALSE}]

\* the request bodies of PATCH /api/tasks/:id tried by SpecNotify: done set,
\* cleared or left out, alone or with a creatorId that is no ObjectId
NotifyPatches ==
  [groupId : {ABSENT}, ownerId : {ABSENT}, creatorId : {ABSENT, BAD},
   assignee : {ABSENT}, done : {"absent", "true", "false"}]

\* the routes that write and clear notifications
NotifySpecNext ==
  \/ LoginNew
  \/ \E u \in UserIds : ClearNotifications(u)
  \/ \E u \in UserIds, body \in NotifyTaskBodies : CreateTask(u, body)
  \/ \E u \in UserIds, t \in TaskIds \cup {BAD}, patch \in NotifyPatches :
       UpdateTask(u, t, patch)

SpecNotify == Init /\ [][NotifySpecNext]_vars

\* the request bodies of PATCH /api/tasks/:id tried by SpecPoll: done set,
\* done cleared, the id of the first group, or none of the modelled fields
PollPatches ==
  {p \in [groupId : {ABSENT, 1}, ownerId : {ABSENT}, creatorId : {ABSENT},
          assignee : {ABSENT}, done : {"absent", "true", "false"}] :
     p.groupId = ABSENT \/ p.done = "absent"}

\* the invite codes tried by SpecPoll, as typed in lower case
PollCodes == {distinctSlice(g) : g \in GroupIds}

\* the routes that change what a poll sees, and the poll
PollSpecNext ==
  \/ LoginNew
  \/ \E u \in UserIds : CreateGroup(u, distinctSlice(nextGroupId))
  \/ \E u \in UserIds, code \in PollCodes : JoinGroup(u, code)
  \/ \E u \in UserIds : ClearNotifications(u)
  \/ \E u \in UserIds, body \in UpdateTaskBodies :
       nextTaskId <= MaxScopedTasks /\ CreateTask(u, body)
  \/ \E u \in UserIds, t \in 1..MaxScopedTasks, patch \in PollPatches :
       UpdateTask(u, t, patch)
  \/ \E u \in UserIds, t \in 1..MaxScopedTasks : DeleteTask(u, t)
  \/ \E u \in UserIds : Poll(u)

SpecPoll == Init /\ [][PollSpecNext]_vars

\* the request body of POST /api/tasks tried by SpecScope: nobody assigned
ScopeTaskBodies ==
  [groupId : {NULL}, ownerId : {NULL}, creatorId : {NULL},
   assignee : {NULL}, done : {FALSE}]

\* the membership routes, each request handled before the next, with the two
\* routes that return the members a caller sees
MembersSpecNext ==
  \/ LoginNew
  \/ \E u \in UserIds : CreateGroup(u, distinctSlice(nextGroupId))
  \/ \E u \in UserIds, code \in PollCodes : JoinGroup(u, code)
  \/ \E u \in UserIds : LeaveGroup(u)
  \/ \E u \in UserIds : DeleteGroup(u)
  \/ \E u \in UserIds : DeleteMe(u)
  \/ \E u \in UserIds : GetUsers(u)
  \/ \E u \in UserIds : Poll(u)

SpecMembers == Init /\ [][MembersSpecNext]_vars

\* POST /api/tasks whose store reads and writes interleave freely
InterleavedSpecNext ==
  \/ LoginNew
  \/ \E u \in UserIds : nextGroupId <= MaxAppGroups /\ CreateGroup(u, distinctSlice(nextGroupId))
  \/ \E u \in UserIds : DeleteGroupBegin(u)
  \/ \E u \in UserIds : DeleteGroupWrite(u)
  \/ \E r \in Requests, u \in UserIds, code \in PollCodes : JoinGroupBegin(r, u, code)
  \/ \E r \in Requests : JoinGroupWrite(r)
  \/ \E r \in Requests, u \in UserIds, body \in ScopeTaskBodies :
       nextTaskId <= MaxScopedTasks /\ CreateTaskBegin(r, u, body)
  \/ \E r \in Requests : CreateTaskWrite(r)

SpecInterleaved == Init /\ [][InterleavedSpecNext]_vars

\* that change the caller's groupId
ScopeSpecNext ==
  \/ LoginNew
  \/ \E u \in UserIds : CreateGroup(u, distinctSlice(nextGroupId))
  \/ \E u \in UserIds, code \in PollCodes : JoinGroup(u, code)
  \/ \E u \in UserIds : LeaveGroup(u)
  \/ \E u \in UserIds, body \in ScopeTaskBodies : CreateTask(u, body)
  \/ \E u \in UserIds : ListTasks(u)
  \/ \E u \in UserIds : Poll(u)

SpecScope == Init /\ [][ScopeSpecNext]_vars

\* requests handled one after another, DELETE /api/groups/mine write by write
DeleteGroupSpecNext ==
  \/ /\ pending = <<>>
     /\ \/ LoginNew
        \/ \E u \in UserIds : CreateGroup(u, distinctSlice(nextGroupId))
        \/ \E u \in UserIds, code \in PollCodes : JoinGroup(u, code)
        \/ \E u \in UserIds : LeaveGroup(u)
        \/ \E u \in UserIds, body \in UpdateTaskBodies :
             nextTaskId <= MaxScopedTasks /\ CreateTask(u, body)
        \/ \E u \in UserIds : GetGroup(u)
        \/ \E u \in UserIds : DeleteGroupBegin(u)
  \/ \E u \in UserIds : DeleteGroupWrite(u)

SpecDeleteGroup == Init /\ [][DeleteGroupSpecNext]_vars

\* the bodies of POST /api/appstate tried by SpecAppState: empty, one field,
\* and two fields of which one differs, each without _id, with the id of the
\* first user and with the id of the first group
AppSpecBodies ==
  [_id : {NoId, userKey(1), groupKey(1)},
   state : {<<>>, [f \in {"pool"} |-> 1], [f \in AppFields |-> IF f = "pool" THEN 2 ELSE 1]}]

\* the membership routes that change a user's key, and the app state routes
AppStateSpecNext ==
  \/ LoginNew
  \/ \E u \in UserIds : nextGroupId <= MaxAppGroups /\ CreateGroup(u, distinctSlice(nextGroupId))
  \/ \E u \in UserIds, code \in PollCodes : JoinGroup(u, code)
  \/ \E u \in UserIds : LeaveGroup(u)
  \/ \E u \in UserIds : GetAppState(u)
  \/ \E u \in UserIds, body \in AppSpecBodies : SetAppState(u, body)

SpecAppState == Init /\ [][AppStateSpecNext]_vars

\* the one body of POST /api/tasks, of PATCH /api/tasks/:id and of
\* POST /api/appstate that SpecRetry sends
RetryTaskBody ==
  [groupId |-> NULL, ownerId |-> NULL, creatorId |-> NULL, assignee |-> NULL,
   done |-> FALSE]
RetryPatch ==
  [groupId |-> ABSENT, ownerId |-> ABSENT, creatorId |-> ABSENT, assignee |-> ABSENT,
   done |-> "true"]
RetryAppBody == [_id |-> NoId, state |-> [f \in {"pool"} |-> 1]]

\* every route that writes, each with one request body, so that a route
\* handled twice in a row for one user and one id or code is a request sent
\* again; user 1 creates and deletes, user 2 joins, both leave and update
RetrySpecNext ==
  \/ LoginNew
  \/ CreateGroup(1, distinctSlice(nextGroupId))
  \/ \E code \in PollCodes : JoinGroup(2, code)
  \/ \E u \in UserIds : LeaveGroup(u)
  \/ DeleteGroup(1)
  \/ CreateTask(1, RetryTaskBody)
  \/ \E u \in UserIds, t \in TaskIds : UpdateTask(u, t, RetryPatch)
  \/ \E t \in TaskIds : DeleteTask(1, t)
  \/ \E u \in UserIds : ClearNotifications(u)
  \/ SetAppState(1, RetryAppBody)

SpecRetry == Init /\ [][RetrySpecNext]_vars

\* the membership routes, task creation and account deletion
DeleteMeSpecNext ==
  \/ LoginNew
  \/ \E u \in UserIds : CreateGroup(u, distinctSlice(nextGroupId))
  \/ \E u \in UserIds, code \in PollCodes : JoinGroup(u, code)
  \/ \E u \in UserIds : LeaveGroup(u)
  \/ \E u \in UserIds, body \in UpdateTaskBodies :
       nextTaskId <= MaxScopedTasks /\ CreateTask(u, body)
  \/ \E u \in UserIds : DeleteMe(u)

SpecDeleteMe == Init /\ [][DeleteMeSpecNext]_vars

(* ----------------------------------------------------------------- claims *)
\* the number of times uid occurs in an array
occurrences(seq, uid) == Cardinality({i \in DOMAIN seq : seq[i] = uid})

\* u's groupId refers to an existing group whose creator is u
IsCreatorOfOwnGroup(u) ==
  /\ u \in DOMAIN users
  /\ users[u].groupId \in DOMAIN groups
  /\ groups[users[u].groupId].creatorId = u

\* u's group has a member other than u
HasOtherMembers(u) ==
  \E i \in DOMAIN groups[users[u].groupId].memberIds :
    groups[users[u].groupId].memberIds[i] # u

\* the step is the handling of a request on route op by user u
Handled(op, u) == resp'.op = op /\ resp'.user = u

\* C1: a deleteGroup by the creator while another user is in memberIds is
\* answered 400 and changes no group, task or user; it succeeds only when the
\* creator is the only member.
C1_CreatorDeleteRefusedWhileOthersRemain ==
  [][\A u \in UserIds :
       (Handled("deleteGroup", u) /\ IsCreatorOfOwnGroup(u)) =>
         /\ HasOtherMembers(u) =>
              (resp'.status = 400 /\ UNCHANGED <<users, groups, tasks>>)
         /\ resp'.status = 200 => groups[users[u].groupId].memberIds = <<u>>]_vars

\* C2: a leaveGroup by the creator of the group succeeds exactly when memberIds
\* has length 1; with other members it is answered 400 and neither memberIds
\* nor the creator's groupId changes.
C2_CreatorLeavesIffAlone ==
  [][\A u \in UserIds :
       (Handled("leaveGroup", u) /\ IsCreatorOfOwnGroup(u)) =>
         LET g == users[u].groupId
         IN /\ resp'.status = 200 <=> Len(groups[g].memberIds) = 1
            /\ Len(groups[g].memberIds) # 1 =>
                 /\ resp'.status = 400
                 /\ g \in DOMAIN groups'
                 /\ groups'[g].memberIds = groups[g].memberIds
                 /\ users'[u].groupId = g]_vars

\* a creator's leaveGroup was refused while another member was in the group
C2_Witness ==
  /\ resp.op = "leaveGroup" /\ resp.status = 400
  /\ IsCreatorOfOwnGroup(resp.user)
  /\ Len(groups[users[resp.user].groupId].memberIds) = 2

\* C3: a deleteGroup by a user who is not the creator of the group their groupId
\* refers to (no group included) is answered 403 and changes no user, task or
\* group.
C3_NonCreatorDeleteForbidden ==
  [][\A u \in UserIds :
       (Handled("deleteGroup", u) /\ u \in DOMAIN users /\ ~IsCreatorOfOwnGroup(u)) =>
         (resp'.status = 403 /\ UNCHANGED <<users, groups, tasks>>)]_vars

\* a member who is not the creator was refused while the group held a task
C3_Witness ==
  /\ resp.op = "deleteGroup" /\ resp.status = 403
  /\ resp.user \in DOMAIN users
  /\ users[resp.user].groupId \in DOMAIN groups
  /\ groups[users[resp.user].groupId].creatorId # resp.user
  /\ includes(groups[users[resp.user].groupId].memberIds, resp.user)
  /\ \E t \in DOMAIN tasks : tasks[t].groupId = users[resp.user].groupId

\* C4: every group that exists has its creatorId in its memberIds.
C4_CreatorIsMember ==
  \A g \in DOMAIN groups : includes(groups[g].memberIds, groups[g].creatorId)

\* C5: for every user u and group g, u.groupId = g exactly when u is in
\* g.memberIds.
C5_BackReferenceAgrees ==
  \A u \in DOMAIN users : \A g \in DOMAIN groups :
    users[u].groupId = g <=> includes(groups[g].memberIds, u)

\* C6: every user id is in the memberIds of at most one group.
C6_AtMostOneGroup ==
  \A u \in UserIds :
    Cardinality({g \in DOMAIN groups : includes(groups[g].memberIds, u)}) <= 1

\* C7: no user has a groupId and solo = true.
C7_GroupExcludesSolo ==
  \A u \in DOMAIN users : ~(users[u].groupId # NULL /\ users[u].solo)

\* C8: a joinGroup that follows a successful joinGroup of the same user with
\* the same invite code succeeds and leaves memberIds, groupId and solo as they
\* were, the user being in memberIds once.
C8_JoinTwiceIsJoinOnce ==
  [][(/\ resp.op = "joinGroup" /\ resp.status = 200
      /\ Handled("joinGroup", resp.user) /\ resp'.arg = resp.arg) =>
        /\ resp'.status = 200
        /\ groups' = groups
        /\ users' = users
        /\ occurrences(groups'[users'[resp.user].groupId].memberIds, resp.user) = 1]_vars

\* a user joined somebody else's group and is in its memberIds once
C8_Witness ==
  /\ resp.op = "joinGroup" /\ resp.status = 200
  /\ users[resp.user].groupId \in DOMAIN groups
  /\ groups[users[resp.user].groupId].creatorId # resp.user
  /\ occurrences(groups[users[resp.user].groupId].memberIds, resp.user) = 1
  /\ ~users[resp.user].solo

\* lower-casing, character by character
LowerChar(c) == IF c = "A" THEN "a" ELSE c
toLowerCase(s) == [i \in DOMAIN s |-> LowerChar(s[i])]

\* the groups whose stored invite code equals the code, compared without case
MatchesIgnoringCase(code) ==
  {g \in DOMAIN groups :
     code # MISSING /\ toLowerCase(groups[g].inviteCode) = toLowerCase(code)}

\* C9: joinGroup joins a group whose stored invite code equals the supplied
\* code without regard to case; when there is none it is answered 404 and no
\* group or user changes.
C9_JoinLooksUpCodeIgnoringCase ==
  [][\A u \in UserIds :
       (Handled("joinGroup", u) /\ u \in DOMAIN users) =>
         IF MatchesIgnoringCase(resp'.arg) = {}
         THEN resp'.status = 404 /\ UNCHANGED <<users, groups>>
         ELSE /\ resp'.status = 200
              /\ users'[u].groupId \in MatchesIgnoringCase(resp'.arg)
              /\ includes(groups'[users'[u].groupId].memberIds, u)]_vars

\* a join with a lowercase code succeeded
C9_Witness ==
  /\ resp.op = "joinGroup" /\ resp.status = 200
  /\ resp.arg # toUpperCase(resp.arg)
  /\ groups[users[resp.user].groupId].inviteCode = toUpperCase(resp.arg)

\* C10: the task stored by createTask has the scope of its creator and nothing
\* else: the creator's groupId and no ownerId when the creator has a group,
\* groupId null and ownerId = creator otherwise.
C10_StoredTaskHasOneScopeShape ==
  [][\A u \in UserIds :
       (Handled("createTask", u) /\ u \in DOMAIN users) =>
         LET task == tasks'[nextTaskId]
         IN IF users[u].groupId # NULL
            THEN task.groupId = users[u].groupId /\ task.ownerId = NULL
            ELSE task.groupId = NULL /\ task.ownerId = u]_vars

\* C11: the scope fields of a task never change: across every step, a task
\* that exists before and after has the same groupId and the same ownerId.
C11_ScopeFieldsNeverChange ==
  [][\A t \in DOMAIN tasks \cap DOMAIN tasks' :
       /\ tasks'[t].groupId = tasks[t].groupId
       /\ tasks'[t].ownerId = tasks[t].ownerId]_vars

\* C12: the caller's scope gates every task route: listTasks returns exactly
\* the tasks matching the caller's scope, and an updateTask or deleteTask
\* changes or removes only tasks matching the caller's scope, so a solo task
\* is never listed for, changed by or deleted by a user other than its owner.
C12_ScopeGatesTaskAccess ==
  [][\A u \in UserIds :
       /\ (Handled("listTasks", u) /\ u \in DOMAIN users) =>
            \A t \in DOMAIN tasks :
              includes(resp'.arg, t) <=> matchesScope(t, scope(u))
       /\ ((Handled("updateTask", u) \/ Handled("deleteTask", u))
             /\ u \in DOMAIN users) =>
            \A t \in DOMAIN tasks :
              (t \notin DOMAIN tasks' \/ tasks'[t] # tasks[t]) =>
                matchesScope(t, scope(u))]_vars

\* the mailboxes of all users but those in except are left as they were
MailboxesKept(except) ==
  \A v \in DOMAIN users \ except :
    v \in DOMAIN users' /\ users'[v].notifications = users[v].notifications

\* C13: a createTask whose assignee is the id of a user other than the
\* creator appends one task_assigned notification carrying the id of the
\* stored task at the end of the assignee's mailbox and touches no other
\* mailbox; with the assignee unset, "all" or the creator no mailbox changes.
C13_CreateTaskNotifiesAssignee ==
  [][\A u \in UserIds :
       (Handled("createTask", u) /\ u \in DOMAIN users) =>
         LET id == nextTaskId
             a == tasks'[id].assignee
         IN /\ (a \in DOMAIN users /\ a # u) =>
                 /\ users'[a].notifications =
                      Append(users[a].notifications,
                             [type |-> "task_assigned", taskId |-> id])
                 /\ MailboxesKept({a})
            /\ a \in {NULL, ALL, u} => MailboxesKept({})]_vars

\* a task assigned to another user was created while that user's mailbox held
\* a notification already
C13_Witness ==
  /\ resp.op = "createTask" /\ resp.status = 200
  /\ LET id == nextTaskId - 1
         a == tasks[id].assignee
     IN /\ a \in DOMAIN users /\ a # resp.user
        /\ Len(users[a].notifications) = 2
        /\ users[a].notifications[2] = [type |-> "task_assigned", taskId |-> id]

\* C14: an updateTask whose patch sets done = true appends one task_done
\* notification carrying the task's id to the mailbox of the task's creator
\* when the caller is not the creator, and touches no other mailbox; when the
\* caller is the creator, or the patch does not set done = true, no mailbox
\* changes.
C14_UpdateTaskNotifiesCreator ==
  [][\A u \in UserIds :
       (Handled("updateTask", u) /\ u \in DOMAIN users
          /\ resp'.arg[1] \in DOMAIN tasks) =>
         LET t == resp'.arg[1]
             done == resp'.arg[2]
             c == tasks[t].creatorId
         IN /\ (done = "true" /\ c \in DOMAIN users /\ c # u) =>
                 /\ users'[c].notifications =
                      Append(users[c].notifications,
                             [type |-> "task_done", taskId |-> t])
                 /\ MailboxesKept({c})
            /\ (done = "true" /\ c = u) => MailboxesKept({})
            /\ done # "true" => MailboxesKept({})]_vars

\* a user other than the creator marked a task done while the creator's
\* mailbox held a notification already
C14_Witness ==
  /\ resp.op = "updateTask" /\ resp.status = 200
  /\ \E t \in DOMAIN tasks :
       LET c == tasks[t].creatorId
       IN /\ c \in DOMAIN users /\ c # resp.user /\ tasks[t].done
          /\ Len(users[c].notifications) = 2
          /\ users[c].notifications[2] = [type |-> "task_done", taskId |-> t]

\* C15: a notification write that fails does not fail the request: a
\* createTask whose assignee id cannot be resolved, and an updateTask setting
\* done = true on a task whose creator id cannot be resolved, have stored
\* their task change and are answered 200.
C15_NotificationFailureStillSucceeds ==
  [][\A u \in UserIds :
       /\ (Handled("createTask", u) /\ u \in DOMAIN users
             /\ nextTaskId \in DOMAIN tasks'
             /\ tasks'[nextTaskId].assignee = BAD) =>
            resp'.status = 200
       /\ (Handled("updateTask", u) /\ u \in DOMAIN users
             /\ resp'.arg[1] \in DOMAIN tasks
             /\ resp'.arg[2] = "true"
             /\ tasks[resp'.arg[1]].creatorId = BAD) =>
            (resp'.status = 200 /\ tasks'[resp'.arg[1]].done)]_vars

\* the tasks in u's scope, with their contents
VisibleTasks(u) ==
  {<<t, tasks[t]>> : t \in {x \in DOMAIN tasks : matchesScope(x, scope(u))}}

\* the member records u sees: u's own, and those of the users of u's group
VisibleMembers(u) ==
  {<<v, users[v].groupId, users[v].solo>> :
     v \in {x \in DOMAIN users :
              x = u \/ (users[u].groupId # NULL
                          /\ users[x].groupId = users[u].groupId)}}

\* the step creates a task in u's scope, or deletes or changes one that was
\* in u's scope
VisibleTaskWritten(u) ==
  \/ \E t \in DOMAIN tasks' \ DOMAIN tasks : <<t, tasks'[t]>> \in VisibleTasks(u)'
  \/ \E t \in DOMAIN tasks :
       /\ matchesScope(t, scope(u))
       /\ t \notin DOMAIN tasks' \/ tasks'[t] # tasks[t]

\* C16: the fingerprint of poll is a function of the tasks in the caller's
\* scope and the visible member records: a step that changes neither leaves
\* the fingerprint as it was, a step that creates, changes or deletes a task
\* in the caller's scope changes it, and a poll answers with that fingerprint.
C16_PollFingerprintTracksVisibleState ==
  [][\A u \in UserIds :
       (u \in DOMAIN users /\ u \in DOMAIN users') =>
         /\ (VisibleTasks(u)' = VisibleTasks(u)
               /\ VisibleMembers(u)' = VisibleMembers(u)) =>
              pollHash(u)' = pollHash(u)
         /\ VisibleTaskWritten(u) => pollHash(u)' # pollHash(u)
         /\ Handled("poll", u) => resp'.arg[1] = pollHash(u)']_vars

\* a poll was answered to a group member after a task of the group was marked
\* done by another member
C16_Witness ==
  /\ resp.op = "poll" /\ resp.status = 200
  /\ users[resp.user].groupId # NULL
  /\ \E t \in DOMAIN tasks :
       /\ tasks[t].done /\ tasks[t].creatorId = resp.user
       /\ matchesScope(t, scope(resp.user))
       /\ resp.arg[1][1] = <<stringifyTask(t)>>
       /\ Len(resp.arg[1][2]) = 2
       /\ users[resp.user].notifications # <<>>

\* every user of the array members who is still stored has groupId null
MembersCleared(members) ==
  \A i \in DOMAIN members :
    members[i] \in DOMAIN users => users[members[i]].groupId = NULL

\* no stored task has g as its groupId
NoTaskOf(g) == \A t \in DOMAIN tasks : tasks[t].groupId # g

\* C17: a deleteGroup writes in the order users, tasks, group: when it clears
\* its members the group's tasks and document are untouched, when it deletes
\* the tasks the members are cleared already, when it deletes the document
\* members are cleared and tasks gone; and once it is answered 200 the group
\* document does not exist, no task has the group's id, every user of the
\* memberIds it read has groupId null and GET /groups/mine gives each null.
C17_DeleteGroupOrderAndOutcome ==
  [][\A u \in DOMAIN pending :
       \A g \in {pending[u].group}, members \in {pending[u].memberIds} :
          /\ (~MembersCleared(members) /\ MembersCleared(members)') =>
               (tasks' = tasks /\ groups' = groups)
          /\ (~NoTaskOf(g) /\ NoTaskOf(g)') =>
               (MembersCleared(members) /\ groups' = groups)
          /\ (g \in DOMAIN groups /\ g \notin DOMAIN groups') =>
               (MembersCleared(members) /\ NoTaskOf(g))
          /\ (Handled("deleteGroup", u) /\ resp'.status = 200) =>
               /\ g \notin DOMAIN groups'
               /\ NoTaskOf(g)'
               /\ MembersCleared(members)'
               /\ \A i \in DOMAIN members :
                    members[i] \in DOMAIN users' => mine(members[i])' = NULL]_vars

\* a deleteGroup of a group with two members was answered 200 after it had
\* deleted the group's task
C17_Witness ==
  /\ resp.op = "deleteGroup" /\ resp.status = 200
  /\ Len(resp.arg) = 2
  /\ MembersCleared(resp.arg)
  /\ tasks = <<>> /\ nextTaskId > 1

\* C18: a deleteTask for an id that no stored task has is answered 404 and
\* changes no user, group or task.
C18_DeleteMissingTaskIsNotFound ==
  [][\A u \in UserIds, t \in TaskIds :
       (t \notin DOMAIN tasks /\ DeleteTask(u, t)) =>
         (resp'.status = 404 /\ UNCHANGED <<users, groups, tasks>>)]_vars

\* v reads the app state u writes: v is u, or v has the groupId of u
SharesAppKey(u, v) ==
  v = u \/ (users[u].groupId # NULL /\ users[v].groupId = users[u].groupId)

\* the step writes no app state document but the one at u's key
OtherKeysKept(u) ==
  /\ DOMAIN appstate' \subseteq DOMAIN appstate \cup {appKey(u)}
  /\ \A k \in DOMAIN appstate \ {appKey(u)} :
       k \in DOMAIN appstate' /\ appstate'[k] = appstate[k]

\* the empty object
EmptyObject == [_id |-> NoId, state |-> <<>>]

WriteOps ==
  {"createGroup", "joinGroup", "leaveGroup", "deleteGroup", "createTask",
   "updateTask", "deleteTask", "clearNotifications", "setAppState"}

\* the step handles again the request that was answered 200 last: the same
\* route, caller and recorded arguments
Reissued(u) ==
  /\ resp.op \in WriteOps /\ resp.user = u /\ resp.status = 200
  /\ resp'.op = resp.op /\ resp'.user = u /\ resp'.arg = resp.arg

\* C19: every write is idempotent under retry: handling again a request that
\* has completed leaves groups, users with their groupId and mailbox, tasks
\* and app state as the first handling left them.
C19_RetryChangesNothing ==
  [][\A u \in UserIds :
       Reissued(u) =>
         (groups' = groups /\ users' = users /\ tasks' = tasks
            /\ appstate' = appstate)]_vars

\* C21: deleteMe by the creator of the caller's group while memberIds holds
\* another user is answered 400 and changes no user, group or task; any other
\* deleteMe is answered 200, deletes the user record and leaves the user's id
\* in the memberIds of the user's group no more.
C21_DeleteMeAppliesCreatorGuard ==
  [][\A u \in UserIds :
       (Handled("deleteMe", u) /\ u \in DOMAIN users) =>
         IF IsCreatorOfOwnGroup(u) /\ HasOtherMembers(u)
         THEN resp'.status = 400 /\ UNCHANGED <<users, groups, tasks>>
         ELSE /\ resp'.status = 200
              /\ u \notin DOMAIN users'
              /\ \A g \in {users[u].groupId} :
                   g \in DOMAIN groups =>
                     (g \in DOMAIN groups' /\ ~includes(groups'[g].memberIds, u))]_vars

\* the creator's account deletion was refused while the group had a second
\* member and a task
C21_Witness ==
  /\ resp.op = "deleteMe" /\ resp.status = 400
  /\ IsCreatorOfOwnGroup(resp.user)
  /\ Len(groups[users[resp.user].groupId].memberIds) = 2
  /\ tasks # <<>>

\* a member who is not the creator deleted the account and is gone from
\* memberIds
C21_WitnessDeleted ==
  /\ resp.op = "deleteMe" /\ resp.status = 200
  /\ resp.user \notin DOMAIN users
  /\ \E g \in DOMAIN groups :
       groups[g].creatorId # resp.user /\ Len(groups[g].memberIds) = 1

\* the tasks a caller with u's groupId and id has access to: those of u's
\* group when the groupId is set, u's own group-less tasks when it is not
InScopeOf(u) ==
  {t \in DOMAIN tasks :
     IF users[u].groupId # NULL
     THEN tasks[t].groupId = users[u].groupId
     ELSE tasks[t].groupId = NULL /\ tasks[t].ownerId = u}

\* C22: the scope of a user is the group scope exactly when the user's
\* groupId is set and the owner scope (no group, owner the user) exactly when
\* it is not, never a group together with an owner; GET /api/tasks lists and
\* GET /api/poll fingerprints the tasks of that scope, and POST /api/tasks
\* stamps the new task with it.
C22_ScopeIsGroupOrOwner ==
  [][\A u \in DOMAIN users :
       /\ scope(u).groupId = users[u].groupId
       /\ scope(u).hasOwnerId <=> users[u].groupId = NULL
       /\ scope(u).hasOwnerId => scope(u).ownerId = u
       /\ ~(scope(u).groupId # NULL /\ scope(u).hasOwnerId)
       /\ Handled("listTasks", u) =>
            {resp'.arg[i] : i \in DOMAIN resp'.arg} = InScopeOf(u)
       /\ Handled("poll", u) =>
            {resp'.arg[1][1][i][1] : i \in DOMAIN resp'.arg[1][1]} = InScopeOf(u)
       /\ Handled("createTask", u) =>
            \A t \in DOMAIN tasks' \ DOMAIN tasks :
              /\ tasks'[t].groupId = users[u].groupId
              /\ users[u].groupId = NULL => tasks'[t].ownerId = u]_vars

\* a member of a group lists the task another member created there, while a
\* user without a group holds a task of their own
C22_Witness ==
  /\ resp.op = "listTasks" /\ resp.user \in DOMAIN users
  /\ users[resp.user].groupId # NULL
  /\ \E i \in DOMAIN resp.arg :
       /\ tasks[resp.arg[i]].creatorId # resp.user
       /\ tasks[resp.arg[i]].groupId = users[resp.user].groupId
  /\ \E t \in DOMAIN tasks : tasks[t].groupId = NULL

\* C23: a successful DELETE /api/groups/mine of group g changes the groupId
\* of no user whose groupId is another group that exists, and leaves the
\* other groups and the tasks of other groups as they were.
C23_DeleteGroupKeepsOtherGroups ==
  [][\A u \in UserIds :
       (Handled("deleteGroup", u) /\ resp'.status = 200) =>
         \A g \in {users[u].groupId} :
           /\ \A v \in DOMAIN users :
                (users[v].groupId # g /\ users[v].groupId \in DOMAIN groups) =>
                  users'[v].groupId = users[v].groupId
           /\ \A h \in DOMAIN groups \ {g} :
                h \in DOMAIN groups' /\ groups'[h] = groups[h]
           /\ \A t \in DOMAIN tasks :
                tasks[t].groupId # g => (t \in DOMAIN tasks' /\ tasks'[t] = tasks[t])]_vars

\* every request has been answered
Quiescent == pending = <<>> /\ inflight = <<>>

\* C24: when the reads and writes of POST /api/groups/join or POST /api/tasks
\* interleave with those of DELETE /api/groups/mine, then once every request
\* has been answered no user's groupId names a group that is gone and no task
\* carries the id of a group that is gone.
C24_NothingDanglesOnceRequestsFinish ==
  Quiescent =>
    /\ \A u \in DOMAIN users :
         users[u].groupId # NULL => users[u].groupId \in DOMAIN groups
    /\ \A t \in DOMAIN tasks :
         tasks[t].groupId # NULL => tasks[t].groupId \in DOMAIN groups

\* C25: however the reads and writes of several POST /api/groups/join
\* requests of one user for one group interleave, no group's memberIds holds
\* a user id more than once.
C25_InterleavedJoinsNeverDuplicate ==
  \A g \in DOMAIN groups :
    \A u \in UserIds : occurrences(groups[g].memberIds, u) <= 1

\* C26: in every state reached by completed membership operations, the
\* members GET /api/users returns to a user in a group are the members whose
\* records GET /api/poll fingerprints for that user.
C26_PollMembersAreListedMembers ==
  [][\A u \in UserIds :
       (Handled("getUsers", u) /\ u \in DOMAIN users /\ users[u].groupId # NULL) =>
         {resp'.arg[i][1] : i \in DOMAIN resp'.arg}
           = {pollHash(u)[2][i].id : i \in DOMAIN pollHash(u)[2]}]_vars

====
